---- MODULE Spec2Model ----
(***************************************************************************)
(* Model of app.py: the startup gallery loader (load_known_faces), the     *)
(* outbound notifier with bounded retry (send_to_nodejs) and the           *)
(* /compare-face request handler (compare_faces).                          *)
(*                                                                         *)
(* Three specifications share the variables:                               *)
(*   LoadSpec    load_known_faces run on a directory listing;              *)
(*   NotifySpec  send_to_nodejs called on its own with retries 0..MaxAttempts; *)
(*   Spec        one request through compare_faces, which calls            *)
(*               send_to_nodejs with the default retries (MAX_RETRIES).    *)
(*                                                                         *)
(* Fixed point: an embedding is a point on the integer line, a distance is *)
(* |a - b| in units of 10^-5, a confidence is in units of 10^-3 percent.   *)
(* Text is a sequence of one-character strings.                            *)
(***************************************************************************)
EXTENDS Integers, Sequences, FiniteSets, TLC

VARIABLES
    known_face_encodings, \* module global, app.py:100
    known_face_names,     \* module global, app.py:100
    folderExists,         \* the file system: CONFIG['FACE_FOLDER'] exists
    lpc,                  \* load_known_faces: position
    listing,              \* load_known_faces: what os.listdir returned
    fileIdx,              \* load_known_faces: index of the next file of the listing
    fileResults,          \* load_known_faces: what decoding each visited file gave
    jsonErrIsRequestException, \* installed requests: is its JSONDecodeError a RequestException
    npc,                  \* send_to_nodejs: position
    retries,              \* send_to_nodejs: parameter
    attempt,              \* send_to_nodejs: loop variable
    data,                 \* send_to_nodejs: payload
    ret,                  \* send_to_nodejs: returned value
    replies,              \* what the endpoint did on each POST, in order
    events,               \* outbound side effects, in order: "post" and "sleep"
    pc,                   \* compare_faces: position
    request,              \* compare_faces: the upload
    face_encodings,       \* compare_faces: embeddings of the upload
    faceIdx,              \* compare_faces: index of the next detected face
    compared,             \* indexes of the detected faces handed to the match step
    response_data,        \* compare_faces: the match response under construction
    notifierCalls,        \* number of calls of send_to_nodejs made by the handler
    responses             \* responses returned to the client, in order

loaderVars == <<folderExists, lpc, listing, fileIdx, fileResults>>
galleryVars == <<known_face_encodings, known_face_names>>
notifierVars == <<npc, retries, attempt, data, ret, replies, events>>
handlerVars == <<pc, request, face_encodings, faceIdx, compared, response_data,
                 notifierCalls, responses>>
vars == <<known_face_encodings, known_face_names, folderExists, lpc, listing, fileIdx, fileResults,
          jsonErrIsRequestException, npc, retries, attempt, data, ret, replies, events,
          pc, request, face_encodings, faceIdx, compared, response_data,
          notifierCalls, responses>>

(***************************************************************************)
(* Bounds of the model                                                     *)
(***************************************************************************)
MaxFiles == 2      \* files in the face folder
MaxGallery == 2    \* gallery entries at request time
MaxFaces == 2      \* faces detected in one upload
MaxAttempts == 3   \* largest retries argument of a direct send_to_nodejs call

(***************************************************************************)
(* CONFIG, app.py:19-26                                                    *)
(***************************************************************************)
TOLERANCE == 50000
MAX_RETRIES == 3
MIN_CONFIDENCE == 65000
One == 100000      \* the literal 1 of (1 - distance), in distance units

Abs(x) == IF x < 0 THEN -x ELSE x
Range(s) == {s[i] : i \in 1..Len(s)}
SeqsUpTo(S, n) == UNION {[1..k -> S] : k \in 0..n}

(***************************************************************************)
(* Python values: None, bool, int, str, list, dict. n is the length of a   *)
(* container or string, the value of an int, 0/1 for a bool.               *)
(***************************************************************************)
PyNone == [t |-> "null", n |-> 0]
PyVal(t, n) == [t |-> t, n |-> n]

\* the dict send_to_nodejs builds for a non-200 status (three keys); n is node_status
PartialSuccess(code) == [t |-> "partial_success", n |-> code]

\* truth value of a Python object, as `if nodejs_response:` takes it
PyTruthy(v) ==
    IF v.t = "null" THEN FALSE
    ELSE IF v.t = "partial_success" THEN TRUE
    ELSE v.n # 0

(***************************************************************************)
(* The downstream endpoint, one behaviour per POST                         *)
(***************************************************************************)
JsonBodies ==
    { PyVal("dict", 0), PyVal("dict", 1), PyVal("list", 0),
      PyVal("null", 0), PyVal("int", 0), PyVal("bool", 0) }

Replies ==
    { [kind |-> "neterr", why |-> "timeout", code |-> 0, body |-> PyNone] }
    \cup { [kind |-> "http", why |-> "", code |-> c, body |-> PyNone] :
          c \in {404, 500} }
    \cup { [kind |-> "http", why |-> "", code |-> 200, body |-> b] : b \in JsonBodies }
    \cup { [kind |-> "http", why |-> w, code |-> 200, body |-> PyNone] :
              w \in {"badjson", "toodeep"} }

IsNetErr(r) == r.kind = "neterr"
IsHttp(r) == r.kind = "http"
\* a 200 whose body response.json() cannot parse: not JSON (a JSONDecodeError),
\* or JSON nested deeper than the decoder recurses (a RecursionError)
Unparseable(r) == r.kind = "http" /\ r.code = 200 /\ r.why \in {"badjson", "toodeep"}

(***************************************************************************)
(* send_to_nodejs, app.py:67-97                                            *)
(***************************************************************************)
\* the exception this attempt raises, if any, is a requests.RequestException:
\* a network failure is; the JSONDecodeError of response.json() is one only in
\* the requests releases that derive it so (2.27 on); a RecursionError never is
Caught(reply) ==
    \/ IsNetErr(reply)
    \/ reply.why = "badjson" /\ jsonErrIsRequestException

\* a retry delay after every failed attempt, the last one too
ShouldSleep_AfterLast(a, n) == a < n

\* app.py:94
ShouldSleep(a, n) == a < n - 1

\* app.py:80-90, for a reply whose handling raises nothing
ResultOf(reply) ==
    IF reply.code = 200 THEN reply.body ELSE PartialSuccess(reply.code)

\* app.py:72, the loop condition of range(retries)
InRange(a, n) == a < n

\* one iteration of the loop: the POST, then the return, the raise or the except
Attempt(reply) ==
    /\ npc = "loop"
    /\ InRange(attempt, retries)
    /\ replies' = Append(replies, reply)
    /\ IF Caught(reply)
       THEN /\ events' = events \o <<"post">> \o
                         (IF ShouldSleep(attempt, retries) THEN <<"sleep">> ELSE <<>>)
            /\ attempt' = attempt + 1
            /\ UNCHANGED <<npc, ret>>
       ELSE /\ events' = Append(events, "post")
            /\ IF Unparseable(reply)
               THEN npc' = "raised" /\ UNCHANGED ret
               ELSE npc' = "returned" /\ ret' = ResultOf(reply)
            /\ UNCHANGED attempt
    /\ UNCHANGED <<retries, data, jsonErrIsRequestException>>
    /\ UNCHANGED <<loaderVars, galleryVars, handlerVars>>

\* app.py:97
LoopExit ==
    /\ npc = "loop"
    /\ ~InRange(attempt, retries)
    /\ npc' = "returned"
    /\ ret' = PyNone
    /\ UNCHANGED <<retries, attempt, data, replies, events, jsonErrIsRequestException>>
    /\ UNCHANGED <<loaderVars, galleryVars, handlerVars>>

(***************************************************************************)
(* The embedding provider (face_recognition), as app.py uses it            *)
(***************************************************************************)
\* face_recognition.face_distance(known, face): one distance per gallery entry
face_distance(known, face) == [i \in 1..Len(known) |-> Abs(known[i] - face)]

\* face_recognition.compare_faces(known, face, tolerance): distance <= tolerance
compare(known, face, tolerance) ==
    [i \in 1..Len(known) |-> face_distance(known, face)[i] <= tolerance]

\* the largest index holding True
IndexOfTrue_Last(m) == CHOOSE i \in 1..Len(m) : m[i] /\ \A j \in (i + 1)..Len(m) : ~m[j]

\* list.index(True): the smallest index holding True (the list holds one)
IndexOfTrue(m) == CHOOSE i \in 1..Len(m) : m[i] /\ \A j \in 1..(i - 1) : ~m[j]

\* (1 - distance) * 100, app.py:143, in units of 10^-3 percent
Confidence(distance) == One - distance

\* f'{confidence:.2f}': hundredths of a percent, rounded to nearest, ties to even
Format2f(c) ==
    LET q == c \div 10
        r == c % 10
    IN  IF r > 5 \/ (r = 5 /\ q % 2 = 1) THEN q + 1 ELSE q

\* the threshold itself does not pass
MeetsThreshold_Strict(c) == c > MIN_CONFIDENCE

\* app.py:161
MeetsThreshold(c) == c >= MIN_CONFIDENCE

(***************************************************************************)
(* compare_faces, app.py:102-191                                           *)
(***************************************************************************)
\* enrolled entries <<name, encoding>> the galleries are drawn from
EntryPool ==
    { << <<"a">>, 30000 >>, << <<"b">>, 10000 >>, << <<"a">>, 10000 >>,
      << <<"b">>, 45000 >> }
QueryPoints == {0, -5000, -5004, 95000}

Requests ==
    { [hasImage |-> FALSE, bytes |-> "empty", faces |-> <<>>],
      [hasImage |-> TRUE, bytes |-> "empty", faces |-> <<>>],
      [hasImage |-> TRUE, bytes |-> "garbage", faces |-> <<>>] }
    \cup { [hasImage |-> TRUE, bytes |-> "image", faces |-> f] :
              f \in SeqsUpTo(QueryPoints, MaxFaces) }

NoName == [t |-> "null", s |-> <<>>]
Str(s) == [t |-> "str", s |-> s]
Msg(text, name, pct) == [text |-> text, name |-> name, pct |-> pct]

\* jsonify of an error or not_found body, with the HTTP status code
ErrorResponse(code, text, reason) ==
    [code |-> code, status |-> "error", message |-> Msg(text, <<>>, 0), reason |-> reason,
     name |-> NoName, confidence |-> [fmt |-> "", v |-> 0],
     node_response |-> PyNone, node_status |-> "", keys |-> {"status", "message"}]

\* no response yet: the request goes on to the match step
Proceed == [ErrorResponse(0, "", "") EXCEPT !.status = "proceed"]

NotFoundResponse ==
    [code |-> 200, status |-> "not_found", message |-> Msg("No Match Found", <<>>, 0),
     reason |-> "", name |-> NoName, confidence |-> [fmt |-> "0%", v |-> 0],
     node_response |-> PyNone, node_status |-> "",
     keys |-> {"status", "message", "name", "confidence"}]

\* app.py:153-158
MatchResponse(name, c) ==
    [code |-> 200, status |-> "success", message |-> Msg("Match Found! Name: ", name, 0),
     reason |-> "", name |-> Str(name), confidence |-> [fmt |-> ".2f%", v |-> Format2f(c)],
     node_response |-> PyNone, node_status |-> "",
     keys |-> {"status", "message", "name", "confidence"}]

\* app.py:168-169
LowConfidence(rd, c) ==
    [rd EXCEPT !.message = Msg("Match found but confidence too low", <<>>, Format2f(c)),
               !.node_status = "Data not sent due to low confidence",
               !.keys = @ \cup {"node_status"}]

\* app.py:163-166
WithNodeResult(rd, nodejs_response) ==
    IF PyTruthy(nodejs_response)
    THEN [rd EXCEPT !.node_response = nodejs_response, !.keys = @ \cup {"node_response"}]
    ELSE [rd EXCEPT !.node_status = "Data sent but no response from Node.js",
                    !.keys = @ \cup {"node_status"}]

NoRequest == [hasImage |-> FALSE, bytes |-> "empty", faces |-> <<>>]
NoResponseData ==
    [code |-> 0, status |-> "", message |-> Msg("", <<>>, 0), reason |-> "",
     name |-> NoName, confidence |-> [fmt |-> "", v |-> 0],
     node_response |-> PyNone, node_status |-> "", keys |-> {}]
\* result_data, app.py:148-151
Payload(name, pct) == [name |-> name, confidence |-> pct]

\* the request arrives
Receive(req) ==
    /\ pc = "idle"
    /\ request' = req
    /\ pc' = "validate"
    /\ UNCHANGED <<face_encodings, faceIdx, compared, response_data, notifierCalls,
                   responses>>
    /\ UNCHANGED <<loaderVars, galleryVars, notifierVars, jsonErrIsRequestException>>

\* the body of an empty upload reported as any other exception is
ValidationResult_NoCustomExcept(req) ==
    IF ~req.hasImage
    THEN ErrorResponse(400, "No image uploaded", "")
    ELSE IF req.bytes = "empty"
    THEN ErrorResponse(500, "Error processing the image: ", "Empty image data")
    ELSE IF req.bytes = "garbage"
    THEN ErrorResponse(500, "Error processing the image: ", "cannot identify image file")
    ELSE IF req.faces = <<>>
    THEN ErrorResponse(400, "No face detected in uploaded image", "")
    ELSE Proceed

\* app.py:106-130 with the handlers of 180-191: the response that ends the
\* request before the match step, or Proceed
ValidationResult(req) ==
    IF ~req.hasImage
    THEN ErrorResponse(400, "No image uploaded", "")
    ELSE IF req.bytes = "empty"
    THEN ErrorResponse(400, "Face recognition error: ", "Empty image data")
    ELSE IF req.bytes = "garbage"
    THEN ErrorResponse(500, "Error processing the image: ", "cannot identify image file")
    ELSE IF req.faces = <<>>
    THEN ErrorResponse(400, "No face detected in uploaded image", "")
    ELSE Proceed

\* app.py:106-130: the image part, the bytes, the decoding, the detected faces
Validate ==
    /\ pc = "validate"
    /\ IF ValidationResult(request) = Proceed
       THEN /\ face_encodings' = request.faces
            /\ faceIdx' = 1
            /\ pc' = "loop"
            /\ UNCHANGED responses
       ELSE /\ responses' = Append(responses, ValidationResult(request))
            /\ pc' = "done"
            /\ face_encodings' =
                   IF request.hasImage /\ request.bytes = "image"
                   THEN request.faces ELSE face_encodings
            /\ UNCHANGED faceIdx
    /\ UNCHANGED <<request, compared, response_data, notifierCalls>>
    /\ UNCHANGED <<loaderVars, galleryVars, notifierVars, jsonErrIsRequestException>>

\* the return of app.py:171 moved under the threshold test
ReturnsOnMatch_OnlyWhenSent(c) == MeetsThreshold(c)

\* app.py:171: the return closes the match branch on either side of the
\* threshold test
ReturnsOnMatch(c) == TRUE

\* app.py:132-171: one iteration of the loop over the detected faces
CompareFace ==
    /\ pc = "loop"
    /\ faceIdx <= Len(face_encodings)
    /\ compared' = Append(compared, faceIdx)
    /\ LET face_encoding == face_encodings[faceIdx]
           matches == compare(known_face_encodings, face_encoding, TOLERANCE)
           face_distances == face_distance(known_face_encodings, face_encoding)
       IN  IF TRUE \in Range(matches)
           THEN LET best_match_index == IndexOfTrue(matches)
                    matched_name == known_face_names[best_match_index]
                    confidence == Confidence(face_distances[best_match_index])
                    rd == MatchResponse(matched_name, confidence)
                IN  IF MeetsThreshold(confidence)
                    THEN /\ response_data' = rd
                         /\ notifierCalls' = notifierCalls + 1
                         /\ data' = Payload(matched_name, Format2f(confidence))
                         /\ retries' = MAX_RETRIES
                         /\ attempt' = 0
                         /\ npc' = "loop"
                         /\ pc' = "notify"
                         /\ UNCHANGED <<faceIdx, responses, ret, replies, events>>
                    ELSE /\ response_data' = LowConfidence(rd, confidence)
                         /\ IF ReturnsOnMatch(confidence)
                            THEN /\ responses' =
                                        Append(responses, LowConfidence(rd, confidence))
                                 /\ pc' = "done"
                                 /\ UNCHANGED faceIdx
                            ELSE /\ faceIdx' = faceIdx + 1
                                 /\ UNCHANGED <<pc, responses>>
                         /\ UNCHANGED <<notifierCalls, notifierVars>>
           ELSE /\ faceIdx' = faceIdx + 1
                /\ UNCHANGED <<pc, response_data, notifierCalls, responses, notifierVars>>
    /\ UNCHANGED <<request, face_encodings>>
    /\ UNCHANGED <<loaderVars, galleryVars, jsonErrIsRequestException>>

\* app.py:173-178: no detected face matched
NoMatch ==
    /\ pc = "loop"
    /\ faceIdx > Len(face_encodings)
    /\ responses' = Append(responses, NotFoundResponse)
    /\ pc' = "done"
    /\ UNCHANGED <<request, face_encodings, faceIdx, compared, response_data,
                   notifierCalls>>
    /\ UNCHANGED <<loaderVars, galleryVars, notifierVars, jsonErrIsRequestException>>

\* app.py:162-171: send_to_nodejs returned
NotifyReturn ==
    /\ pc = "notify"
    /\ npc = "returned"
    /\ response_data' = WithNodeResult(response_data, ret)
    /\ responses' = Append(responses, WithNodeResult(response_data, ret))
    /\ pc' = "done"
    /\ npc' = "idle"
    /\ UNCHANGED <<request, face_encodings, faceIdx, compared, notifierCalls>>
    /\ UNCHANGED <<retries, attempt, data, ret, replies, events>>
    /\ UNCHANGED <<loaderVars, galleryVars, jsonErrIsRequestException>>

\* app.py:186-191: send_to_nodejs raised what it does not catch
NotifyRaise ==
    /\ pc = "notify"
    /\ npc = "raised"
    /\ responses' = Append(responses,
           ErrorResponse(500, "Error processing the image: ", "str(e) of the JSON error"))
    /\ pc' = "done"
    /\ npc' = "idle"
    /\ UNCHANGED <<request, face_encodings, faceIdx, compared, response_data,
                   notifierCalls>>
    /\ UNCHANGED <<retries, attempt, data, ret, replies, events>>
    /\ UNCHANGED <<loaderVars, galleryVars, jsonErrIsRequestException>>

(***************************************************************************)
(* load_known_faces, app.py:34-65                                          *)
(***************************************************************************)
\* file names of the face folder
FilePool ==
    { <<"a", ".", "j", "p", "g">>,
      <<"b", ".", "J", "P", "G">>,
      <<"a", ".", "j", "p", "e", "g">>,
      <<"c", ".", "P", "n", "g">>,
      <<"a", ".", "t", "x", "t">>,
      <<"a", "j", "p", "g">>,
      <<"a", ".", "b", ".", "p", "n", "g">>,
      <<".", "j", "p", "g">> }

\* what face_recognition gives for one file: an exception, or the encodings found
FileOutcomes ==
    { [kind |-> "error", faces |-> <<>>],
      [kind |-> "faces", faces |-> <<>>],
      [kind |-> "faces", faces |-> <<10000>>],
      [kind |-> "faces", faces |-> <<30000, 10000>>] }
NotRead == [kind |-> "notread", faces |-> <<>>]

\* os.listdir: distinct names, in an order the file system chooses
Listings ==
    { l \in SeqsUpTo(FilePool, MaxFiles) :
          \A i, j \in 1..Len(l) : i # j => l[i] # l[j] }

\* str.lower, on the letters the names use
LowerChar(c) ==
    CASE c = "J" -> "j" [] c = "P" -> "p" [] c = "G" -> "g"
      [] c = "E" -> "e" [] c = "N" -> "n" [] OTHER -> c
Lower(f) == [i \in 1..Len(f) |-> LowerChar(f[i])]

\* str.endswith
EndsWith(f, suffix) ==
    /\ Len(f) >= Len(suffix)
    /\ SubSeq(f, Len(f) - Len(suffix) + 1, Len(f)) = suffix

\* app.py:47
IsImageName(filename) ==
    \E suffix \in { <<".", "j", "p", "g">>, <<".", "j", "p", "e", "g">>,
                    <<".", "p", "n", "g">> } :
        EndsWith(Lower(filename), suffix)

\* os.path.splitext(filename)[0]: cut at the last dot that follows a character
\* other than a dot; a name with no such dot is returned whole
SplitextRoot(filename) ==
    LET dots == {i \in 1..Len(filename) : filename[i] = "."}
        dotIndex == CHOOSE i \in dots : \A j \in dots : j <= i
    IN  IF dots = {} THEN filename
        ELSE IF \E j \in 1..(dotIndex - 1) : filename[j] # "."
        THEN SubSeq(filename, 1, dotIndex - 1)
        ELSE filename

\* the last encoding of a file kept in place of its first
KeptEncodings_LastFace(outcome) ==
    IF outcome.kind = "faces" /\ outcome.faces # <<>>
    THEN <<outcome.faces[Len(outcome.faces)]>>
    ELSE <<>>

\* app.py:54-55: the encoding kept for a file, if any
KeptEncodings(outcome) ==
    IF outcome.kind = "faces" /\ outcome.faces # <<>>
    THEN <<outcome.faces[1]>>
    ELSE <<>>

\* app.py:42-44
FolderMissing ==
    /\ lpc = "start"
    /\ ~folderExists
    /\ lpc' = "returned"
    /\ UNCHANGED <<folderExists, listing, fileIdx, fileResults>>
    /\ UNCHANGED <<galleryVars, notifierVars, handlerVars, jsonErrIsRequestException>>

\* app.py:46, os.listdir
ListDir(l) ==
    /\ lpc = "start"
    /\ folderExists
    /\ listing' = l
    /\ fileIdx' = 1
    /\ lpc' = "loop"
    /\ UNCHANGED <<folderExists, fileResults>>
    /\ UNCHANGED <<galleryVars, notifierVars, handlerVars, jsonErrIsRequestException>>

\* app.py:46-63: one iteration of the loop over the listing
LoadFile(outcome) ==
    /\ lpc = "loop"
    /\ fileIdx <= Len(listing)
    /\ LET filename == listing[fileIdx]
       IN  IF IsImageName(filename)
           THEN /\ outcome \in FileOutcomes
                /\ known_face_encodings' = known_face_encodings \o KeptEncodings(outcome)
                /\ known_face_names' =
                       IF KeptEncodings(outcome) # <<>>
                       THEN Append(known_face_names, SplitextRoot(filename))
                       ELSE known_face_names
           ELSE /\ outcome = NotRead
                /\ UNCHANGED <<known_face_encodings, known_face_names>>
    /\ fileResults' = Append(fileResults, outcome)
    /\ fileIdx' = fileIdx + 1
    /\ UNCHANGED <<folderExists, lpc, listing>>
    /\ UNCHANGED <<notifierVars, handlerVars, jsonErrIsRequestException>>

\* app.py:65
LoadReturn ==
    /\ lpc = "loop"
    /\ fileIdx > Len(listing)
    /\ lpc' = "returned"
    /\ UNCHANGED <<folderExists, listing, fileIdx, fileResults>>
    /\ UNCHANGED <<galleryVars, notifierVars, handlerVars, jsonErrIsRequestException>>

\* the module is being imported: load_known_faces is about to run
LoadInit ==
    /\ known_face_encodings = <<>> /\ known_face_names = <<>>
    /\ folderExists \in BOOLEAN
    /\ lpc = "start" /\ listing = <<>> /\ fileIdx = 1 /\ fileResults = <<>>
    /\ jsonErrIsRequestException = TRUE   \* the loader makes no use of requests
    /\ npc = "idle" /\ retries = MAX_RETRIES /\ attempt = 0
    /\ data = Payload(<<>>, 0) /\ ret = PyNone /\ replies = <<>> /\ events = <<>>
    /\ pc = "import" /\ request = NoRequest /\ face_encodings = <<>> /\ faceIdx = 1
    /\ compared = <<>> /\ response_data = NoResponseData
    /\ notifierCalls = 0 /\ responses = <<>>

LoadNext ==
    \/ FolderMissing
    \/ \E l \in Listings : ListDir(l)
    \/ \E outcome \in FileOutcomes \cup {NotRead} : LoadFile(outcome)
    \/ LoadReturn

LoadSpec == LoadInit /\ [][LoadNext]_vars

\* a direct call send_to_nodejs(data, retries)
NotifyInit ==
    /\ known_face_encodings = <<>> /\ known_face_names = <<>>
    /\ folderExists = TRUE
    /\ lpc = "returned" /\ listing = <<>> /\ fileIdx = 1 /\ fileResults = <<>>
    /\ jsonErrIsRequestException \in BOOLEAN
    /\ npc = "loop"
    /\ retries \in 0..MaxAttempts
    /\ attempt = 0
    /\ data = Payload(<<"a">>, 7000)
    /\ ret = PyNone
    /\ replies = <<>>
    /\ events = <<>>
    /\ pc = "direct" /\ request = NoRequest /\ face_encodings = <<>> /\ faceIdx = 1
    /\ compared = <<>> /\ response_data = NoResponseData
    /\ notifierCalls = 0 /\ responses = <<>>

NotifyNext ==
    \/ \E reply \in Replies : Attempt(reply)
    \/ LoopExit

NotifySpec == NotifyInit /\ [][NotifyNext]_vars

\* the galleries load_known_faces can have left: names and encodings of one length
Galleries == SeqsUpTo(EntryPool, MaxGallery)

\* the server after start-up: the gallery is loaded, no request has arrived
Init ==
    /\ \E g \in Galleries :
          /\ known_face_encodings = [i \in 1..Len(g) |-> g[i][2]]
          /\ known_face_names = [i \in 1..Len(g) |-> g[i][1]]
    /\ folderExists = TRUE
    /\ lpc = "returned" /\ listing = <<>> /\ fileIdx = 1 /\ fileResults = <<>>
    /\ jsonErrIsRequestException \in BOOLEAN
    /\ npc = "idle" /\ retries = MAX_RETRIES /\ attempt = 0
    /\ data = Payload(<<>>, 0) /\ ret = PyNone /\ replies = <<>> /\ events = <<>>
    /\ pc = "idle" /\ request = NoRequest /\ face_encodings = <<>> /\ faceIdx = 1
    /\ compared = <<>> /\ response_data = NoResponseData
    /\ notifierCalls = 0 /\ responses = <<>>

Next ==
    \/ \E req \in Requests : Receive(req)
    \/ Validate
    \/ CompareFace
    \/ NoMatch
    \/ \E reply \in Replies : Attempt(reply)
    \/ LoopExit
    \/ NotifyReturn
    \/ NotifyRaise

Spec == Init /\ [][Next]_vars

(***************************************************************************)
(* Properties of compare_faces, checked under Spec                         *)
(***************************************************************************)
Min(S) == CHOOSE x \in S : \A y \in S : x <= y
Response == responses[Len(responses)]
Answered == pc = "done" /\ responses # <<>>

\* the upload decodes to an image
Decodes == request.hasImage /\ request.bytes = "image"
\* the gallery entries within tolerance of an embedding
Within(face) ==
    {i \in 1..Len(known_face_encodings) :
        Abs(known_face_encodings[i] - face) <= TOLERANCE}
\* the detected faces that have a gallery entry within tolerance
MatchingFaces == {k \in 1..Len(request.faces) : Within(request.faces[k]) # {}}
HasMatch == Decodes /\ MatchingFaces # {}
\* past the match step of the first matching face
Matched == HasMatch /\ pc \in {"notify", "done"}
FirstFace == Min(MatchingFaces)
FirstEntry == Min(Within(request.faces[FirstFace]))
DistanceTo(k, i) == Abs(known_face_encodings[i] - request.faces[k])
ExpectedConfidence ==
    LET k == FirstFace
    IN  One - DistanceTo(k, Min(Within(request.faces[k])))

\* C4: a request that produces a match calls send_to_nodejs exactly once when
\* the confidence is at or above MIN_CONFIDENCE and never when it is below;
\* below, the message says the confidence was too low and node_status says
\* the data was not sent. No request calls send_to_nodejs more than once.
C4_ThresholdGate ==
    /\ notifierCalls <= 1
    /\ (pc \in {"notify", "done"} /\ HasMatch) =>
          IF ExpectedConfidence >= MIN_CONFIDENCE
          THEN notifierCalls = 1
          ELSE /\ notifierCalls = 0
               /\ events = <<>>
               /\ Answered
               /\ Response.message.text = "Match found but confidence too low"
               /\ Response.node_status = "Data not sent due to low confidence"
               /\ "node_response" \notin Response.keys

C4_Witness ==
    /\ Matched
    /\ ExpectedConfidence = MIN_CONFIDENCE
    /\ notifierCalls = 1
    /\ Answered

\* C5: the match returned is the first gallery entry within tolerance, not the
\* closest: the name is that of the matching entry of smallest index and the
\* confidence comes from that entry's distance; names repeat in the gallery
\* and the earlier entry wins.
C5_FirstInGalleryOrder ==
    (pc \in {"notify", "done"} /\ HasMatch) =>
        LET k == FirstFace
            i == Min(Within(request.faces[k]))
        IN  /\ response_data.name = Str(known_face_names[i])
            /\ response_data.confidence =
                   [fmt |-> ".2f%", v |-> Format2f(One - DistanceTo(k, i))]
            /\ (Answered /\ Response.code = 200) =>
                   /\ Response.name = response_data.name
                   /\ Response.confidence = response_data.confidence

C5_Witness ==
    /\ Matched
    /\ Answered
    /\ Response.code = 200
    /\ \E j \in Within(request.faces[FirstFace]) :
          /\ j > FirstEntry
          /\ DistanceTo(FirstFace, j) < DistanceTo(FirstFace, FirstEntry)
          /\ known_face_names[j] # known_face_names[FirstEntry]

\* C6: a request whose match is at or above the threshold is answered 200
\* "success" with the matched name, whatever the endpoint does on each attempt.
C6_NotificationFailureContained ==
    (Matched /\ ExpectedConfidence >= MIN_CONFIDENCE /\ Answered) =>
        /\ Response.code = 200
        /\ Response.status = "success"
        /\ Response.name = Str(known_face_names[FirstEntry])

\* C7: detected faces are compared in detection order and the first one that
\* matches decides the response: no later face is compared, even when the
\* match is below the threshold and a later face would match above it. When
\* no face matches (an empty gallery included) the response is 200
\* "not_found", name null, confidence "0%", and send_to_nodejs is not called.
C7_ShortCircuit ==
    /\ \A n \in 1..Len(compared) : compared[n] = n
    /\ HasMatch =>
          LET k == FirstFace
          IN  /\ Len(compared) <= k
              /\ pc \in {"notify", "done"} =>
                    /\ Len(compared) = k
                    /\ response_data.name =
                           Str(known_face_names[Min(Within(request.faces[k]))])
                    /\ Answered => Response.status # "not_found"
    /\ (Decodes /\ request.faces # <<>> /\ MatchingFaces = {} /\ pc = "done") =>
          /\ Len(compared) = Len(request.faces)
          /\ Len(responses) = 1
          /\ Response.code = 200
          /\ Response.status = "not_found"
          /\ Response.name = NoName
          /\ Response.confidence = [fmt |-> "0%", v |-> 0]
          /\ notifierCalls = 0
          /\ events = <<>>

C7_Witness ==
    /\ Matched
    /\ Answered
    /\ FirstFace = 1
    /\ ExpectedConfidence < MIN_CONFIDENCE
    /\ \E k \in MatchingFaces :
          /\ k > 1
          /\ One - DistanceTo(k, Min(Within(request.faces[k]))) >= MIN_CONFIDENCE

C9_OutcomeIncluded ==
    (Answered /\ notifierCalls = 1 /\ Response.code = 200) =>
        IF replies # <<>> /\ IsHttp(replies[Len(replies)])
                          /\ ~Unparseable(replies[Len(replies)])
        THEN /\ "node_response" \in Response.keys
             /\ Response.node_response = ret
             /\ "node_status" \notin Response.keys
        ELSE /\ Response.node_status = "Data sent but no response from Node.js"
             /\ "node_response" \notin Response.keys

(***************************************************************************)
(* Properties of send_to_nodejs, checked under NotifySpec                  *)
(***************************************************************************)
NotifierEnded == npc \in {"returned", "raised"}
AllNetErr == \A i \in 1..Len(replies) : IsNetErr(replies[i])
Posts == Len(SelectSeq(events, LAMBDA e : e = "post"))
Sleeps == Len(SelectSeq(events, LAMBDA e : e = "sleep"))

\* C1: a call with retries >= 1 whose every attempt ends in a network-level
\* failure makes exactly `retries` POSTs, sleeps once between each two
\* consecutive POSTs and not after the last, and returns None (Failed).
C1_AllAttemptsFail ==
    (NotifierEnded /\ retries >= 1 /\ AllNetErr) =>
        /\ npc = "returned"
        /\ ret = PyNone
        /\ Len(replies) = retries
        /\ Posts = retries
        /\ Sleeps = retries - 1
        /\ events = [i \in 1..(2 * retries - 1) |-> IF i % 2 = 1 THEN "post" ELSE "sleep"]

C1_Witness ==
    /\ NotifierEnded
    /\ retries = MAX_RETRIES
    /\ AllNetErr
    /\ Len(replies) = MAX_RETRIES

\* C2: the first attempt that receives an HTTP response ends the call: no
\* POST follows it; status 200 returns the parsed body, any other status the
\* partial_success dict carrying that status.
C2_FirstResponseEnds ==
    \A i \in 1..Len(replies) :
        IsHttp(replies[i]) =>
            /\ i = Len(replies)
            /\ npc = "returned"
            /\ ret = IF replies[i].code = 200
                     THEN replies[i].body
                     ELSE PartialSuccess(replies[i].code)

\* C3: None (Failed) is returned only when every attempt ended in a
\* network-level failure.
C3_FailedOnlyOnNetErr ==
    (npc = "returned" /\ ret = PyNone) => AllNetErr

(***************************************************************************)
(* Properties of load_known_faces, checked under LoadSpec                  *)
(***************************************************************************)
\* the name ends in .jpg, .jpeg or .png, in any case
HasImageExtension(f) ==
    \E k \in {4, 5} :
        /\ Len(f) >= k
        /\ f[Len(f) - k + 1] = "."
        /\ <<k, [i \in 1..(k - 1) |-> f[Len(f) - k + 1 + i]]>> \in
              { <<4, <<c1, c2, c3>> >> :
                    c1 \in {"j", "J"}, c2 \in {"p", "P"}, c3 \in {"g", "G"} }
              \cup { <<4, <<c1, c2, c3>> >> :
                    c1 \in {"p", "P"}, c2 \in {"n", "N"}, c3 \in {"g", "G"} }
              \cup { <<5, <<c1, c2, c3, c4>> >> :
                    c1 \in {"j", "J"}, c2 \in {"p", "P"}, c3 \in {"e", "E"},
                    c4 \in {"g", "G"} }

\* n is f without its extension: what follows n in f is empty, or a dot and
\* then no other dot, and it is empty only when f has no dot after a
\* character that is not a dot
IsNameWithoutExtension(n, f) ==
    /\ Len(n) <= Len(f)
    /\ n = SubSeq(f, 1, Len(n))
    /\ LET ext == SubSeq(f, Len(n) + 1, Len(f))
       IN  IF \E i \in 2..Len(f) : f[i] = "." /\ \E j \in 1..(i - 1) : f[j] # "."
           THEN /\ ext # <<>>
                /\ ext[1] = "."
                /\ \A i \in 2..Len(ext) : ext[i] # "."
           ELSE ext = <<>>

\* the visited files that yield an entry
Yielding ==
    {i \in 1..Len(fileResults) :
        /\ HasImageExtension(listing[i])
        /\ fileResults[i].kind = "faces"
        /\ fileResults[i].faces # <<>>}
\* the position in the gallery of the entry of file i
Rank(i) == Cardinality({j \in Yielding : j <= i})

\* C10: for an existing folder and any per-file outcome the loader finishes,
\* and the gallery is the listing-order subsequence of the files with an image
\* extension that gave at least one encoding: one entry per such file, its
\* first encoding and its name without extension, names not deduplicated,
\* names and encodings of one length and aligned. A missing folder gives an
\* empty gallery.
C10_GalleryIsYieldingSubsequence ==
    /\ lpc # "returned" => ENABLED LoadNext
    /\ Len(known_face_names) = Len(known_face_encodings)
    /\ Len(known_face_encodings) = Cardinality(Yielding)
    /\ \A i \in Yielding :
          /\ known_face_encodings[Rank(i)] = fileResults[i].faces[1]
          /\ IsNameWithoutExtension(known_face_names[Rank(i)], listing[i])
    /\ (lpc = "returned" /\ folderExists) => Len(fileResults) = Len(listing)
    /\ (lpc = "returned" /\ ~folderExists) =>
          known_face_encodings = <<>> /\ known_face_names = <<>>

C10_Witness ==
    /\ lpc = "returned"
    /\ folderExists
    /\ Len(listing) = 2
    /\ fileResults[1].kind = "error"
    /\ HasImageExtension(listing[2])
    /\ Len(fileResults[2].faces) = 2
    /\ Len(known_face_names) = 1

====
